---- MODULE Spec2Model ----
(***************************************************************************)
(* A model of the download job controller of YouTube_Downloader:           *)
(*   - YT_DLP_Download (src/YT_DLP_Download.py): one worker object per     *)
(*     job, run on its own thread, talking to the GUI thread through Qt    *)
(*     signals, cancel() and provide_overwrite_response();                 *)
(*   - the Tk scheduler (src/YouTubeDownloaderApp.py): add_dls_to_queue,   *)
(*     start_download_thread and update_threads over the module globals    *)
(*     threads and downloads_queue;                                        *)
(*   - the retry loop of YouTubeDownload.start_yt_download                 *)
(*     (src/YouTubeDownload.py);                                           *)
(*   - the download loop of the script's main() (src/YouTube_Downloader.py)*)
(* The four parts share no state in the source; each has a specification   *)
(* of its own over its own variables: Spec (one YT_DLP_Download job and    *)
(* its GUI), PairSpec (two jobs side by side), SchedSpec (the Tk           *)
(* scheduler), RetrySpec (the retry loop) and MainSpec (the script);       *)
(* FairSpec and FairSchedSpec add the fairness the threads' and the GUI    *)
(* loop's scheduling give.                                                 *)
(***************************************************************************)
EXTENDS Integers, Sequences, FiniteSets, TLC

\* ------------------------------------------------------------- bounds
\* number of YT_DLP_Download objects that exist at the same time
NumJobs == 2
\* progress-hook invocations the engine makes during one transfer
MaxHooks == 2
\* URLs handed to add_dls_to_queue in one run
MaxUrls == 7
\* transfer attempts of the retry loop that are followed
MaxAttempts == 13

Jobs == 1..NumJobs

\* The final paths the jobs' metadata can resolve to (os.path.join of the
\* final directory and the prepared file name).
Paths == {"a.mp4", "b.mp4"}

\* The value of a Python reference that is None, and Python's booleans where
\* a field holds None or a boolean.
None == "None"
PyBool(b) == IF b THEN "True" ELSE "False"

\* A path of the final directory holds no file, the file that was there
\* before any job ran, or the file a job's transfer wrote.
Absent == [exists |-> FALSE, by |-> 0]
OldFile == [exists |-> TRUE, by |-> 0]
NewFile(j) == [exists |-> TRUE, by |-> j]

VARIABLES
    \* ---- YT_DLP_Download, one entry per job object
    pc,              \* where the job's worker thread stands in start_yt_download
                     \* ("unbuilt": no such object, "queued": not yet started)
    expected_path,   \* the final path the job's URL resolves to
    _cancelled,      \* self._cancelled
    _prompt_event,   \* self._prompt_event: None, or an Event "unset"/"set"
    _prompt_response,\* self._prompt_response: None, "True" or "False"
    allow,           \* the local `allow` of start_yt_download: None, "True", "False"
    video_title,     \* self.video_title
    _success,        \* self._success
    events,          \* the signals the job has emitted, in order
    engine,          \* calls made to yt-dlp: metadata fetches, transfers, hooks
    cancel_at,       \* the pc of the job when cancel() was called (None: never)
    fs,              \* the final directory: path -> Absent, OldFile or NewFile(j)
    temp,            \* the jobs with an artifact in the temp staging directory
    hook_limit,      \* the progress reports the engine makes per transfer
    \* ---- YouTubeDownloaderApp, the module globals
    threads,         \* threads: the tracked threads, each named by its URL
    alive,           \* the threads for which is_alive() is true
    downloads_queue, \* downloads_queue
    started,         \* the URLs start_download_thread has taken, in order
    thread_monitoring_active,
    tick_pending,    \* root_tk.after has an update_threads call scheduled
    tick_raised,     \* an update_threads call ended with an exception
    maximum_simultaneous_downloads,
    submitted,       \* how many URLs add_dls_to_queue has appended
    \* ---- YouTubeDownload, one object
    rpc,             \* where start_yt_download stands
    failed_download_attempts,
    need_to_clear_download_cache,
    video_doesnt_exist,
    redownload_video,\* None, "True" or "False"
    transfer_attempts,\* calls of run_youtube_dl_download
    cache_clears,    \* runs of "yt-dlp --rm-cache-dir"
    result,          \* what start_yt_download returned: None, "True", "False"
    title_returned,  \* what get_video_title returned (None: not yet called)
    FINAL_DESTINATION_DIR,
    output_file_path,\* the directory of self.output_file_path (None: unset)
    files,           \* directory -> what it holds of this download
    attempt_outcome, \* how the last run_youtube_dl_download ended (None: no call)
    yd_video_title,  \* self.video_title.get() of the YouTubeDownload object
    temp_dir_others, \* the names in TEMP_DOWNLOAD_LOC of the temp files of
                     \* other jobs, all still downloading
    \* ---- YouTube_Downloader.py, the script's main() and its globals
    main_pc,         \* where main() stands in its download loop
    main_failed_download_attempts, \* main's local failed_download_attempts
    dl_format,       \* the -f argument of the last command built (None: none)
    download_successful,
    download_playlist_yes,
    output_filepaths \* how many paths output_filepaths holds

jobVars == <<pc, expected_path, _cancelled, _prompt_event, _prompt_response,
             allow, video_title, _success, events, engine, cancel_at, fs, temp,
             hook_limit>>

schedVars == <<threads, alive, downloads_queue, started,
               thread_monitoring_active, tick_pending, tick_raised,
               maximum_simultaneous_downloads, submitted>>

retryVars == <<rpc, failed_download_attempts, need_to_clear_download_cache,
               video_doesnt_exist, redownload_video, transfer_attempts,
               cache_clears, result, title_returned, FINAL_DESTINATION_DIR,
               output_file_path, files, attempt_outcome, yd_video_title,
               temp_dir_others>>

mainVars == <<main_pc, main_failed_download_attempts, dl_format,
              download_successful, download_playlist_yes, output_filepaths>>

vars == <<jobVars, schedVars, retryVars, mainVars>>

\* what no step of a job, of the scheduler, of the retry loop changes
jobFixed == <<expected_path, hook_limit, schedVars, retryVars, mainVars>>
schedFixed == <<maximum_simultaneous_downloads, jobVars, retryVars, mainVars>>
retryFixed == <<jobVars, schedVars, mainVars>>
mainFixed == <<download_playlist_yes, jobVars, schedVars, retryVars>>

\* ------------------------------------------------ YT_DLP_Download: signals
Status(text) == <<"status", text>>
Title(text) == <<"title", text>>
Error(text) == <<"error", text>>
Prompt(path) == <<"prompt", path>>
Finished(ok) == <<"finished", ok>>
Progress(pct) == <<"progress", pct>>

\* The title the first metadata fetch reports, and the one the engine may
\* report in the info dict of the finished transfer.
MetaTitle == "title"
Titles == {"title", "title (renamed)"}

\* except Exception (outer handler): error_occurred, finished(False)
SetupFailEvents == <<Error("setup"), Finished(FALSE)>>

\* metadata failure: error_occurred, finished(False), return
MetadataFailEvents == <<Error("Metadata extraction failed"), Finished(FALSE)>>

\* the skip, were it reported through error_occurred
SkipEvents_AsError == <<Error("Skipped (file exists)"), Finished(FALSE)>>

\* not allow: status "Skipped (file exists)", finished(False), return
SkipEvents == <<Status("Skipped (file exists)"), Finished(FALSE)>>

\* os.remove raised: error_occurred, finished(False), return
RemoveFailEvents == <<Error("Unable to remove existing file"), Finished(FALSE)>>

\* transfer returned: title_updated, finished(True), status "Completed"
SuccessEvents(title) == <<Title(title), Finished(TRUE), Status("Completed")>>

\* RuntimeError with "cancel" in it: status "Cancelled", finished(False)
CancelledEvents == <<Status("Cancelled"), Finished(FALSE)>>

\* the handler of a failed transfer, were it to return after error_occurred
TransferFailEvents_NoFinished == <<Error("Download failed")>>

\* any other exception of the transfer: error_occurred, finished(False)
TransferFailEvents == <<Error("Download failed"), Finished(FALSE)>>

\* The exceptions the transfer can end with: the class, and whether the
\* message holds the word "cancel".
Exceptions == [class : {"RuntimeError", "DownloadError"}, cancel : BOOLEAN]

\* raise RuntimeError("Download cancelled by user") in _progress_hook
HookCancelException == [class |-> "RuntimeError", cancel |-> TRUE]

\* the cancel test, were it to look for the wrong exception class
IsCancelException_WrongClass(e) == e.class = "DownloadError" /\ e.cancel

\* isinstance(e, RuntimeError) and "cancel" in str(e).lower()
IsCancelException(e) == e.class = "RuntimeError" /\ e.cancel

\* the except clause of the transfer
TransferExceptEvents(e) ==
    IF IsCancelException(e) THEN CancelledEvents ELSE TransferFailEvents

Emit(j, es) == events' = [events EXCEPT ![j] = @ \o es]

\* ------------------------------------------------ YT_DLP_Download: Init
JobInit(constructed, reports) ==
    /\ hook_limit = reports
    /\ pc = [j \in Jobs |-> IF j \in constructed THEN "queued" ELSE "unbuilt"]
    /\ expected_path \in [Jobs -> Paths]
    /\ \A j \in Jobs \ constructed : expected_path[j] = "a.mp4"
    /\ _cancelled = [j \in Jobs |-> FALSE]
    /\ _prompt_event = [j \in Jobs |-> None]
    /\ _prompt_response = [j \in Jobs |-> None]
    /\ allow = [j \in Jobs |-> None]
    /\ video_title = [j \in Jobs |-> ""]
    /\ _success = [j \in Jobs |-> FALSE]
    /\ events = [j \in Jobs |-> <<>>]
    /\ engine = [j \in Jobs |-> [meta |-> 0, transfer |-> 0, hooks |-> 0,
                                    cancel_seen |-> FALSE]]
    /\ cancel_at = [j \in Jobs |-> None]
    /\ fs = [p \in Paths |-> IF p = "a.mp4" THEN OldFile ELSE Absent]
    /\ temp = {}

\* ------------------------------------------------ YT_DLP_Download: GUI thread
\* cancel(): sets the flag and emits a status, whatever the job is doing,
\* also before it has started and after it has ended. The GUI's calls are
\* followed up to the first one per job.
cancel(j) ==
    /\ pc[j] # "unbuilt"
    /\ ~_cancelled[j]
    /\ _cancelled' = [_cancelled EXCEPT ![j] = TRUE]
    /\ cancel_at' = [cancel_at EXCEPT ![j] = pc[j]]
    /\ Emit(j, <<Status("Cancel requested")>>)
    /\ UNCHANGED <<pc, jobFixed, _prompt_event, _prompt_response, allow,
                   video_title, _success, engine, fs, temp>>

\* provide_overwrite_response, were it to store the response and leave the
\* event unset
provide_overwrite_response_NoSet(j, a) ==
    /\ pc[j] # "unbuilt"
    /\ IF _prompt_event[j] # None
       THEN _prompt_response' = [_prompt_response EXCEPT ![j] = PyBool(a)]
       ELSE UNCHANGED _prompt_response
    /\ UNCHANGED <<pc, jobFixed, _cancelled, _prompt_event, allow, video_title,
                   _success, events, engine, cancel_at, fs, temp>>

\* provide_overwrite_response, were the event and the response attributes of
\* the class, shared by every job
provide_overwrite_response_Shared(j, a) ==
    /\ pc[j] # "unbuilt"
    /\ _prompt_response' = [k \in Jobs |-> IF _prompt_event[k] # None
                                            THEN PyBool(a)
                                            ELSE _prompt_response[k]]
    /\ _prompt_event' = [k \in Jobs |-> IF _prompt_event[k] # None
                                         THEN "set"
                                         ELSE _prompt_event[k]]
    /\ UNCHANGED <<pc, jobFixed, _cancelled, allow, video_title, _success,
                   events, engine, cancel_at, fs, temp>>

\* provide_overwrite_response(allow): under the lock, answers the prompt
\* event if there is one.
provide_overwrite_response(j, a) ==
    /\ pc[j] # "unbuilt"
    /\ IF _prompt_event[j] # None
       THEN /\ _prompt_response' = [_prompt_response EXCEPT ![j] = PyBool(a)]
            /\ _prompt_event' = [_prompt_event EXCEPT ![j] = "set"]
       ELSE UNCHANGED <<_prompt_event, _prompt_response>>
    /\ UNCHANGED <<pc, jobFixed, _cancelled, allow, video_title, _success,
                   events, engine, cancel_at, fs, temp>>

\* ------------------------------------------------ YT_DLP_Download: worker
\* The thread is started on start_yt_download.
Start(j) ==
    /\ pc[j] = "queued"
    /\ pc' = [pc EXCEPT ![j] = "setup"]
    /\ UNCHANGED <<jobFixed, _cancelled, _prompt_event, _prompt_response,
                   allow, video_title, _success, events, engine, cancel_at,
                   fs, temp>>

\* os.makedirs of both directories and the building of ydl_opts; an
\* exception lands in the outer handler.
Setup(j) ==
    /\ pc[j] = "setup"
    /\ \E ok \in BOOLEAN :
         IF ok
         THEN /\ pc' = [pc EXCEPT ![j] = "metadata"]
              /\ UNCHANGED events
         ELSE /\ pc' = [pc EXCEPT ![j] = "done"]
              /\ Emit(j, SetupFailEvents)
    /\ UNCHANGED <<jobFixed, _cancelled, _prompt_event, _prompt_response,
                   allow, video_title, _success, engine, cancel_at, fs, temp>>

\* The metadata fetch, and on success the title update.
FetchMetadata(j) ==
    /\ pc[j] = "metadata"
    /\ engine' = [engine EXCEPT ![j].meta = @ + 1]
    /\ \E ok \in BOOLEAN :
         IF ok
         THEN /\ pc' = [pc EXCEPT ![j] = "collision"]
              /\ video_title' = [video_title EXCEPT ![j] = MetaTitle]
              /\ Emit(j, <<Status("Extracting metadata..."), Title(MetaTitle)>>)
         ELSE /\ pc' = [pc EXCEPT ![j] = "done"]
              /\ Emit(j, <<Status("Extracting metadata...")>> \o MetadataFailEvents)
              /\ UNCHANGED video_title
    /\ UNCHANGED <<jobFixed, _cancelled, _prompt_event, _prompt_response,
                   allow, _success, cancel_at, fs, temp>>

\* prepare_filename and os.path.exists; an exception of prepare_filename is
\* swallowed and the job goes on to the transfer. With a file at the path,
\* _ask_overwrite_blocking installs a fresh event under the lock.
CollisionCheck(j) ==
    /\ pc[j] = "collision"
    /\ \E prepared \in BOOLEAN :
         IF prepared /\ fs[expected_path[j]].exists
         THEN /\ pc' = [pc EXCEPT ![j] = "prompt"]
              /\ _prompt_event' = [_prompt_event EXCEPT ![j] = "unset"]
              /\ _prompt_response' = [_prompt_response EXCEPT ![j] = None]
         ELSE /\ pc' = [pc EXCEPT ![j] = "transfer"]
              /\ UNCHANGED <<_prompt_event, _prompt_response>>
    /\ UNCHANGED <<jobFixed, _cancelled, allow, video_title, _success,
                   events, engine, cancel_at, fs, temp>>

\* _ask_overwrite_blocking, were it to return after the emit without ev.wait()
EmitPrompt_NoWait(j) ==
    /\ pc[j] = "prompt"
    /\ pc' = [pc EXCEPT ![j] = "transfer"]
    /\ Emit(j, <<Prompt(expected_path[j])>>)
    /\ UNCHANGED <<jobFixed, _cancelled, _prompt_event, _prompt_response,
                   allow, video_title, _success, engine, cancel_at, fs, temp>>

\* _ask_overwrite_blocking, were it to emit prompt_overwrite a second time
EmitPrompt_Twice(j) ==
    /\ pc[j] = "prompt"
    /\ pc' = [pc EXCEPT ![j] = "wait"]
    /\ Emit(j, <<Prompt(expected_path[j]), Prompt(expected_path[j])>>)
    /\ UNCHANGED <<jobFixed, _cancelled, _prompt_event, _prompt_response,
                   allow, video_title, _success, engine, cancel_at, fs, temp>>

\* self.prompt_overwrite.emit(filepath)
EmitPrompt(j) ==
    /\ pc[j] = "prompt"
    /\ pc' = [pc EXCEPT ![j] = "wait"]
    /\ Emit(j, <<Prompt(expected_path[j])>>)
    /\ UNCHANGED <<jobFixed, _cancelled, _prompt_event, _prompt_response,
                   allow, video_title, _success, engine, cancel_at, fs, temp>>

\* the collision branch, were it to go on to the transfer without os.remove
AwaitResponse_NoRemove(j) ==
    /\ pc[j] = "wait"
    /\ _prompt_event[j] = "set"
    /\ LET resp == (_prompt_response[j] = "True") IN
         /\ allow' = [allow EXCEPT ![j] = PyBool(resp)]
         /\ IF resp
            THEN /\ pc' = [pc EXCEPT ![j] = "transfer"]
                 /\ UNCHANGED events
            ELSE /\ pc' = [pc EXCEPT ![j] = "done"]
                 /\ Emit(j, SkipEvents)
    /\ _prompt_event' = [_prompt_event EXCEPT ![j] = None]
    /\ _prompt_response' = [_prompt_response EXCEPT ![j] = None]
    /\ UNCHANGED <<jobFixed, _cancelled, video_title, _success, engine,
                   cancel_at, fs, temp>>

\* ev.wait() returns once the event is set; the response is then read and
\* the prompt state cleared under the lock. bool(None) is False.
AwaitResponse(j) ==
    /\ pc[j] = "wait"
    /\ _prompt_event[j] = "set"
    /\ LET resp == (_prompt_response[j] = "True") IN
         /\ allow' = [allow EXCEPT ![j] = PyBool(resp)]
         /\ IF resp
            THEN /\ pc' = [pc EXCEPT ![j] = "remove"]
                 /\ UNCHANGED events
            ELSE /\ pc' = [pc EXCEPT ![j] = "done"]
                 /\ Emit(j, SkipEvents)
    /\ _prompt_event' = [_prompt_event EXCEPT ![j] = None]
    /\ _prompt_response' = [_prompt_response EXCEPT ![j] = None]
    /\ UNCHANGED <<jobFixed, _cancelled, video_title, _success, engine,
                   cancel_at, fs, temp>>

\* the except clause of os.remove, were its return missing
RemoveExisting_FallsThrough(j) ==
    /\ pc[j] = "remove"
    /\ pc' = [pc EXCEPT ![j] = "transfer"]
    /\ \E ok \in BOOLEAN :
         IF ok /\ fs[expected_path[j]].exists
         THEN /\ fs' = [fs EXCEPT ![expected_path[j]] = Absent]
              /\ UNCHANGED events
         ELSE /\ Emit(j, RemoveFailEvents)
              /\ UNCHANGED fs
    /\ UNCHANGED <<jobFixed, _cancelled, _prompt_event, _prompt_response,
                   allow, video_title, _success, engine, cancel_at, temp>>

\* os.remove(expected_path): raises when the file is gone or cannot be
\* removed.
RemoveExisting(j) ==
    /\ pc[j] = "remove"
    /\ \E ok \in BOOLEAN :
         IF ok /\ fs[expected_path[j]].exists
         THEN /\ pc' = [pc EXCEPT ![j] = "transfer"]
              /\ fs' = [fs EXCEPT ![expected_path[j]] = Absent]
              /\ UNCHANGED events
         ELSE /\ pc' = [pc EXCEPT ![j] = "done"]
              /\ Emit(j, RemoveFailEvents)
              /\ UNCHANGED fs
    /\ UNCHANGED <<jobFixed, _cancelled, _prompt_event, _prompt_response,
                   allow, video_title, _success, engine, cancel_at, temp>>

\* status "Starting download..." and the call of the engine, which stages
\* its output in the temp directory.
StartTransfer(j) ==
    /\ pc[j] = "transfer"
    /\ pc' = [pc EXCEPT ![j] = "downloading"]
    /\ engine' = [engine EXCEPT ![j].transfer = @ + 1]
    /\ temp' = temp \cup {j}
    /\ Emit(j, <<Status("Starting download...")>>)
    /\ UNCHANGED <<jobFixed, _cancelled, _prompt_event, _prompt_response,
                   allow, video_title, _success, cancel_at, fs>>

\* The transfer ends with the exception e.
TransferRaises(j, e) ==
    /\ pc' = [pc EXCEPT ![j] = "done"]
    /\ Emit(j, TransferExceptEvents(e))
    /\ UNCHANGED <<jobFixed, _cancelled, _prompt_event, _prompt_response,
                   allow, video_title, _success, cancel_at, fs, temp>>

\* _progress_hook, were it without its test of self._cancelled
HookEnter_NoCancelTest(j) ==
    /\ pc[j] = "downloading"
    /\ engine[j].hooks < hook_limit
    /\ engine' = [engine EXCEPT ![j].hooks = @ + 1]
    /\ pc' = [pc EXCEPT ![j] = "hook"]
    /\ UNCHANGED <<jobFixed, _cancelled, _prompt_event, _prompt_response,
                   allow, video_title, _success, events, cancel_at, fs, temp>>

\* _progress_hook(d), called by the engine on the worker thread: first the
\* test of self._cancelled, which raises RuntimeError into the transfer.
HookEnter(j) ==
    /\ pc[j] = "downloading"
    /\ engine[j].hooks < hook_limit
    /\ IF _cancelled[j]
       THEN /\ engine' = [engine EXCEPT ![j].hooks = @ + 1,
                                        ![j].cancel_seen = TRUE]
            /\ TransferRaises(j, HookCancelException)
       ELSE /\ engine' = [engine EXCEPT ![j].hooks = @ + 1]
            /\ pc' = [pc EXCEPT ![j] = "hook"]
            /\ UNCHANGED <<jobFixed, _cancelled, _prompt_event,
                           _prompt_response, allow, video_title, _success,
                           events, cancel_at, fs, temp>>

\* The dicts the engine reports; total is 0 for a missing or zero
\* total_bytes and total_bytes_estimate.
HookDicts ==
    [status : {"downloading"}, downloaded : 0..2, total : 0..2]
      \cup [status : {"finished"}, downloaded : {0}, total : {0}]

\* pct = downloaded / total * 100, kept as a whole percentage
Pct(d) == (d.downloaded * 100) \div d.total

\* the hook, were it to report an unknown total as 0 percent
HookEvents_ZeroPct(d) ==
    IF d.status = "downloading"
    THEN IF d.total > 0
         THEN <<Progress(Pct(d)), Status("pct")>>
         ELSE <<Progress(0), Status("Downloaded")>>
    ELSE <<Status("Download finished (processing)")>>

\* what _progress_hook emits for d once past the cancel test
HookEvents(d) ==
    IF d.status = "downloading"
    THEN IF d.total > 0
         THEN <<Progress(Pct(d)), Status("pct")>>
         ELSE <<Status("Downloaded")>>
    ELSE <<Status("Download finished (processing)")>>

\* the rest of _progress_hook(d)
HookBody(j, d) ==
    /\ pc[j] = "hook"
    /\ pc' = [pc EXCEPT ![j] = "downloading"]
    /\ Emit(j, HookEvents(d))
    /\ UNCHANGED <<jobFixed, _cancelled, _prompt_event, _prompt_response,
                   allow, video_title, _success, engine, cancel_at, fs, temp>>

\* The engine itself fails.
TransferFail(j, e) ==
    /\ pc[j] = "downloading"
    /\ TransferRaises(j, e)
    /\ UNCHANGED engine

\* The engine returns an info dict: its output is in the final directory
\* (a file already there may be kept by the engine) and the staging
\* artifact is gone.
TransferSuccess(j, t) ==
    /\ pc[j] = "downloading"
    /\ pc' = [pc EXCEPT ![j] = "done"]
    /\ \E keep \in BOOLEAN :
         fs' = IF keep /\ fs[expected_path[j]].exists
               THEN fs
               ELSE [fs EXCEPT ![expected_path[j]] = NewFile(j)]
    /\ temp' = temp \ {j}
    /\ _success' = [_success EXCEPT ![j] = TRUE]
    /\ video_title' = [video_title EXCEPT ![j] = t]
    /\ Emit(j, SuccessEvents(t))
    /\ UNCHANGED <<jobFixed, _cancelled, _prompt_event, _prompt_response,
                   allow, engine, cancel_at>>

\* The engine returns None: self._success is set, then info_dict.get raises
\* AttributeError inside the try of the transfer.
TransferReturnsNone(j) ==
    /\ pc[j] = "downloading"
    /\ pc' = [pc EXCEPT ![j] = "done"]
    /\ _success' = [_success EXCEPT ![j] = TRUE]
    /\ Emit(j, TransferExceptEvents([class |-> "AttributeError", cancel |-> FALSE]))
    /\ UNCHANGED <<jobFixed, _cancelled, _prompt_event, _prompt_response,
                   allow, video_title, engine, cancel_at, fs, temp>>

Worker(j) ==
    \/ Start(j)
    \/ Setup(j)
    \/ FetchMetadata(j)
    \/ CollisionCheck(j)
    \/ EmitPrompt(j)
    \/ AwaitResponse(j)
    \/ RemoveExisting(j)
    \/ StartTransfer(j)
    \/ HookEnter(j)
    \/ \E d \in HookDicts : HookBody(j, d)
    \/ \E e \in Exceptions : TransferFail(j, e)
    \/ \E t \in Titles : TransferSuccess(j, t)
    \/ TransferReturnsNone(j)

Gui(j) ==
    \/ cancel(j)
    \/ \E a \in BOOLEAN : provide_overwrite_response(j, a)

\* ------------------------------------------------ YouTubeDownloaderApp
\* The values of the "Simultaneous Downloads" combobox, and the one it is
\* set to.
PoolSizes == {1, 2, 3, 4}
DefaultPoolSize == 2

Urls == 1..MaxUrls

SchedInit(n) ==
    /\ threads = <<>>
    /\ alive = {}
    /\ downloads_queue = <<>>
    /\ started = <<>>
    /\ thread_monitoring_active = FALSE
    /\ tick_pending = FALSE
    /\ tick_raised = FALSE
    /\ maximum_simultaneous_downloads = n
    /\ submitted = 0

\* url = downloads_queue.pop(): the index of the element deque.pop() takes
PopIndex(q) == Len(q)

\* q without its i-th element
Without(q, i) == SubSeq(q, 1, i - 1) \o SubSeq(q, i + 1, Len(q))

\* start_download_thread, were it to read the URL and leave it in the queue
start_download_thread_NoPop(ths, q, live, order, monitoring, pending) ==
    LET url == q[Len(q)] IN
      [threads |-> Append(ths, url),
       queue |-> q,
       alive |-> live \cup {url},
       started |-> Append(order, url),
       monitoring |-> TRUE,
       pending |-> IF monitoring THEN pending ELSE TRUE]

\* start_download_thread() on the globals (ths, q, live, order) and the
\* monitoring flag: the thread of the popped URL is appended and started,
\* and monitoring is initiated when it is not active.
start_download_thread(ths, q, live, order, monitoring, pending) ==
    LET url == q[PopIndex(q)] IN
      [threads |-> Append(ths, url),
       queue |-> Without(q, PopIndex(q)),
       alive |-> live \cup {url},
       started |-> Append(order, url),
       monitoring |-> TRUE,
       pending |-> IF monitoring THEN pending ELSE TRUE]

\* The globals as a record, for the handlers that may or may not start a
\* thread.
Globals(ths, q, live, order, monitoring, pending) ==
    [threads |-> ths, queue |-> q, alive |-> live, started |-> order,
     monitoring |-> monitoring, pending |-> pending]

SetGlobals(g) ==
    /\ threads' = g.threads
    /\ downloads_queue' = g.queue
    /\ alive' = g.alive
    /\ started' = g.started
    /\ thread_monitoring_active' = g.monitoring
    /\ tick_pending' = g.pending

\* add_dls_to_queue, were its capacity test to read <=
add_dls_to_queue_OneOver(valid) ==
    /\ submitted < MaxUrls
    /\ IF valid
       THEN LET url == submitted + 1
                q == Append(downloads_queue, url)
            IN /\ submitted' = url
               /\ SetGlobals(
                    IF Len(threads) <= maximum_simultaneous_downloads
                    THEN start_download_thread(threads, q, alive, started,
                                               thread_monitoring_active,
                                               tick_pending)
                    ELSE Globals(threads, q, alive, started,
                                 thread_monitoring_active, tick_pending))
       ELSE UNCHANGED <<threads, alive, downloads_queue, started,
                        thread_monitoring_active, tick_pending, submitted>>
    /\ UNCHANGED <<tick_raised, schedFixed>>

\* add_dls_to_queue(url) with a valid URL that is no playlist: append, then
\* start a thread if fewer than the maximum are tracked. An invalid URL
\* shows an error box and returns.
add_dls_to_queue(valid) ==
    /\ submitted < MaxUrls
    /\ IF valid
       THEN LET url == submitted + 1
                q == Append(downloads_queue, url)
            IN /\ submitted' = url
               /\ SetGlobals(
                    IF Len(threads) < maximum_simultaneous_downloads
                    THEN start_download_thread(threads, q, alive, started,
                                               thread_monitoring_active,
                                               tick_pending)
                    ELSE Globals(threads, q, alive, started,
                                 thread_monitoring_active, tick_pending))
       ELSE UNCHANGED <<threads, alive, downloads_queue, started,
                        thread_monitoring_active, tick_pending, submitted>>
    /\ UNCHANGED <<tick_raised, schedFixed>>

\* The target of a thread returns.
ThreadExit(t) ==
    /\ t \in alive
    /\ alive' = alive \ {t}
    /\ UNCHANGED <<threads, downloads_queue, started, thread_monitoring_active,
                   tick_pending, tick_raised, submitted, schedFixed>>

\* for idx, thread in enumerate(list(threads)):
\*     if thread.is_alive() is False: del threads[idx]
\* copy is list(threads), idx the (1-based) position in it, ths the list
\* being deleted from; del raises IndexError when idx is past its end.
RECURSIVE ClearFinished(_, _, _, _)
ClearFinished(copy, idx, ths, live) ==
    IF idx > Len(copy)
    THEN [threads |-> ths, raised |-> FALSE]
    ELSE IF copy[idx] \notin live
         THEN IF idx > Len(ths)
              THEN [threads |-> ths, raised |-> TRUE]
              ELSE ClearFinished(copy, idx + 1, Without(ths, idx), live)
         ELSE ClearFinished(copy, idx + 1, ths, live)

\* update_threads(), run by the Tk loop when its after() call is due. An
\* exception ends the callback: nothing after the loop runs, and no further
\* call is scheduled.
update_threads ==
    /\ tick_pending
    /\ LET cleared == ClearFinished(threads, 1, threads, alive) IN
         IF cleared.raised
         THEN /\ threads' = cleared.threads
              /\ tick_pending' = FALSE
              /\ tick_raised' = TRUE
              /\ UNCHANGED <<alive, downloads_queue, started,
                             thread_monitoring_active>>
         ELSE LET g == IF /\ Len(cleared.threads) < maximum_simultaneous_downloads
                          /\ downloads_queue # <<>>
                       THEN start_download_thread(cleared.threads,
                                downloads_queue, alive, started,
                                thread_monitoring_active, TRUE)
                       ELSE Globals(cleared.threads, downloads_queue, alive,
                                started, thread_monitoring_active, TRUE)
              IN /\ SetGlobals(
                      IF g.threads # <<>>
                      THEN g
                      ELSE [g EXCEPT !.monitoring = FALSE, !.pending = FALSE])
                 /\ UNCHANGED tick_raised
    /\ UNCHANGED <<submitted, schedFixed>>

SchedNext ==
    \/ \E valid \in BOOLEAN : add_dls_to_queue(valid)
    \/ \E t \in Urls : ThreadExit(t)
    \/ update_threads

\* ------------------------------------------------ YouTubeDownload
\* if self.failed_download_attempts > 10: the ceiling of the retry loop
MaxFailedAttempts == 10

\* The two directories of the settings; the user may choose the same
\* directory for both.
Dirs == {"temporary_downloads_directory", "completed_downloads_directory"}
TEMP_DOWNLOAD_LOC == "temporary_downloads_directory"

\* the outtmpl, were it to point into the final directory
OutputDir_Final(final) == final

\* the directory of the outtmpl: where the engine writes what it downloads
OutputDir(final) == TEMP_DOWNLOAD_LOC

\* Names are sequences of characters. raw_url, the first value of
\* self.video_title: it holds "/" and no file name does.
raw_url == <<"h", "/", "v">>

\* The titles the metadata can report; info.get('title', '') gives the
\* empty string when it reports none.
InfoTitles == {<<>>, <<"a">>, <<"d">>}

\* The temp files other jobs keep in the shared TEMP_DOWNLOAD_LOC while they
\* download: one of a video titled "ab", one of a video titled "c".
OtherTempFiles == {<<"a", "b", ".part">>, <<"c", ".part">>}

\* Python's `title in dir_item` on strings: title is a substring of the name
Contains(title, dir_item) ==
    \E i \in 0..(Len(dir_item) - Len(title)) :
        SubSeq(dir_item, i + 1, i + Len(title)) = title

\* __init__ with final_destination_dir = final
RetryInitIn(final) ==
    /\ rpc = "title"
    /\ failed_download_attempts = 0
    /\ need_to_clear_download_cache = FALSE
    /\ video_doesnt_exist = FALSE
    /\ redownload_video = None
    /\ transfer_attempts = 0
    /\ cache_clears = 0
    /\ result = None
    /\ title_returned = None
    /\ FINAL_DESTINATION_DIR = final
    /\ output_file_path = None
    /\ files = [d \in Dirs |-> "none"]
    /\ attempt_outcome = None
    /\ yd_video_title = raw_url
    /\ temp_dir_others = OtherTempFiles

RetryInit == RetryInitIn("completed_downloads_directory")

\* What get_video_title can meet: the metadata and no file of that name in
\* the output directory, the metadata and such a file (the user answers the
\* askyesno box), an error that names the video as removed, any other error.
TitleOutcomes == {"fresh", "exists_yes", "exists_no", "removed", "error"}

\* self.get_video_title() and the two early returns of start_yt_download;
\* t is the title of the metadata, stored when extract_info has returned
get_video_title(o, t) ==
    /\ rpc = "title"
    /\ yd_video_title' = IF o \in {"removed", "error"} THEN yd_video_title
                         ELSE t
    /\ title_returned' = CASE o = "removed" -> "ERROR: Video removed"
                            [] o = "error" -> "ERROR: Title fetch failed"
                            [] OTHER -> "title"
    /\ video_doesnt_exist' = (o = "removed")
    /\ redownload_video' = CASE o = "exists_yes" -> "True"
                             [] o = "exists_no" -> "False"
                             [] OTHER -> None
    /\ IF o = "removed" \/ o = "exists_no"
       THEN rpc' = "returned" /\ result' = "False"
       ELSE rpc' = "loop" /\ UNCHANGED result
    /\ UNCHANGED <<failed_download_attempts, need_to_clear_download_cache,
                   transfer_attempts, cache_clears, FINAL_DESTINATION_DIR,
                   output_file_path, files, attempt_outcome, temp_dir_others,
                   retryFixed>>

\* What one call of run_youtube_dl_download can end with: the hook marked
\* the download successful, an exception naming HTTP Error 403, any other
\* failure.
AttemptOutcomes == {"ok", "http403", "fail"}

\* run_youtube_dl_download: the flag is set on HTTP Error 403 and nowhere
\* reset.
NeedClearAfter(flag, o) == flag \/ o = "http403"

\* Whether a transfer attempt failed
Failed(o) == o # "ok"

\* What a directory holds after one call of run_youtube_dl_download that
\* ended with o: the finished file, or after a failure the .part file the
\* engine left, if it left one.
AfterTransfer(held, o, leaves) ==
    IF ~Failed(o) THEN "whole" ELSE IF leaves THEN "part" ELSE held

\* The cleanup after a counted failure: the items of TEMP_DOWNLOAD_LOC whose
\* name contains self.video_title.get() are removed. matches: the name of
\* the item holds that string (the raw URL of a failed title fetch holds
\* "/" and is in no file name).
AfterCleanup(held, matches) == IF matches THEN "none" ELSE held

\* The same cleanup on the other items of the listing: every name that
\* contains the title is removed, whose file it may be.
OthersAfterCleanup(title, others) ==
    {dir_item \in others : ~Contains(title, dir_item)}

\* One turn of the while loop: the transfer, then either the break, the
\* cache clearing (run_win_cmd raises when the command fails) or the count
\* of the failure and the cleanup, then the test of the ceiling.
Attempt(o, cmd_ok, leaves, matches) ==
    /\ rpc = "loop"
    /\ transfer_attempts < MaxAttempts
    /\ matches => title_returned = "title"
    /\ yd_video_title = <<>> => matches
    /\ transfer_attempts' = transfer_attempts + 1
    /\ attempt_outcome' = o
    /\ need_to_clear_download_cache' = NeedClearAfter(need_to_clear_download_cache, o)
    /\ output_file_path' = IF Failed(o) THEN None
                           ELSE OutputDir(FINAL_DESTINATION_DIR)
    /\ LET dir == OutputDir(FINAL_DESTINATION_DIR)
           got == AfterTransfer(files[dir], o, leaves)
       IN IF o = "ok"
          THEN /\ rpc' = "finalize"
               /\ files' = [files EXCEPT ![dir] = got]
               /\ UNCHANGED <<failed_download_attempts, cache_clears, result,
                              temp_dir_others>>
          ELSE IF need_to_clear_download_cache'
          THEN /\ cache_clears' = cache_clears + 1
               /\ files' = [files EXCEPT ![dir] = got]
               /\ UNCHANGED <<failed_download_attempts, temp_dir_others>>
               /\ IF ~cmd_ok
                  THEN rpc' = "raised" /\ UNCHANGED result
                  ELSE IF failed_download_attempts > MaxFailedAttempts
                  THEN rpc' = "returned" /\ result' = "False"
                  ELSE UNCHANGED <<rpc, result>>
          ELSE /\ failed_download_attempts' = failed_download_attempts + 1
               /\ files' = [[files EXCEPT ![dir] = got]
                               EXCEPT ![TEMP_DOWNLOAD_LOC] =
                                   AfterCleanup(@, matches)]
               /\ temp_dir_others' =
                      OthersAfterCleanup(yd_video_title, temp_dir_others)
               /\ UNCHANGED cache_clears
               /\ IF failed_download_attempts' > MaxFailedAttempts
                  THEN rpc' = "returned" /\ result' = "False"
                  ELSE UNCHANGED <<rpc, result>>
    /\ UNCHANGED <<video_doesnt_exist, redownload_video, title_returned,
                   FINAL_DESTINATION_DIR, yd_video_title, retryFixed>>

\* The move of the finished file to the final directory, skipped when the
\* file is already there; an exception of shutil.move leaves
\* start_yt_download.
Finalize(move_ok) ==
    /\ rpc = "finalize"
    /\ IF output_file_path = FINAL_DESTINATION_DIR
       THEN rpc' = "returned" /\ result' = "True" /\ UNCHANGED files
       ELSE IF move_ok
       THEN /\ rpc' = "returned" /\ result' = "True"
            /\ files' = [files EXCEPT ![output_file_path] = "none",
                                      ![FINAL_DESTINATION_DIR] = "whole"]
       ELSE rpc' = "raised" /\ UNCHANGED <<result, files>>
    /\ UNCHANGED <<failed_download_attempts, need_to_clear_download_cache,
                   video_doesnt_exist, redownload_video, transfer_attempts,
                   cache_clears, title_returned, FINAL_DESTINATION_DIR,
                   output_file_path, attempt_outcome, yd_video_title,
                   temp_dir_others, retryFixed>>

RetryNext ==
    \/ \E o \in TitleOutcomes, t \in InfoTitles : get_video_title(o, t)
    \/ \E o \in AttemptOutcomes, cmd_ok, leaves, matches \in BOOLEAN :
          Attempt(o, cmd_ok, leaves, matches)
    \/ \E move_ok \in BOOLEAN : Finalize(move_ok)

\* ------------------------------------------------ YouTube_Downloader.py
\* youtube_dl_mp4_formats, each as str() writes it into the command
youtube_dl_mp4_formats == <<"137", "136", "398", "22">>

\* determine_download_command: the -f argument for the given count of
\* failed attempts (Python indexes the list from 0); "" once the count is
\* past the list.
determine_download_command(failed) ==
    IF failed = 0 THEN "best[ext=mp4]/best"
    ELSE IF failed = 1 THEN "best"
    ELSE IF failed < 2 + Len(youtube_dl_mp4_formats)
    THEN youtube_dl_mp4_formats[failed - 1]
    ELSE ""

\* main() up to the download loop; the playlist question has been answered
MainInit(playlist) ==
    /\ main_pc = "command"
    /\ main_failed_download_attempts = 0
    /\ dl_format = None
    /\ download_successful = FALSE
    /\ download_playlist_yes = playlist
    /\ output_filepaths = 0

\* dl_command = determine_download_command(url, failed_download_attempts)
BuildCommand ==
    /\ main_pc = "command"
    /\ main_failed_download_attempts < MaxAttempts
    /\ dl_format' = determine_download_command(main_failed_download_attempts)
    /\ main_pc' = "run"
    /\ UNCHANGED <<main_failed_download_attempts, download_successful,
                   output_filepaths, mainFixed>>

\* run_youtube_dl_download(dl_command) and the test of download_successful:
\* destination: youtube-dl printed a "[download] Destination:" line, whose
\* path is appended to output_filepaths; complete: it printed
\* "[download] 100% of".
RunCommand(destination, complete) ==
    /\ main_pc = "run"
    /\ download_successful' = complete
    /\ output_filepaths' = output_filepaths + (IF destination THEN 1 ELSE 0)
    /\ IF complete
       THEN /\ main_pc' = "move"
            /\ UNCHANGED main_failed_download_attempts
       ELSE /\ main_pc' = "command"
            /\ main_failed_download_attempts' = main_failed_download_attempts + 1
    /\ UNCHANGED <<dl_format, mainFixed>>

\* the files of output_filepaths are moved, those of a playlist are left
MoveOutputs ==
    /\ main_pc = "move"
    /\ main_pc' = "done"
    /\ UNCHANGED <<main_failed_download_attempts, dl_format,
                   download_successful, output_filepaths, mainFixed>>

MainNext ==
    \/ BuildCommand
    \/ \E destination, complete \in BOOLEAN : RunCommand(destination, complete)
    \/ MoveOutputs

\* ------------------------------------------------ specifications
\* One YT_DLP_Download job and its GUI.
Init ==
    /\ JobInit({1}, MaxHooks)
    /\ SchedInit(DefaultPoolSize)
    /\ RetryInit
    /\ MainInit(FALSE)

Next == \E j \in Jobs : Worker(j) \/ Gui(j)

Spec == Init /\ [][Next]_vars

\* The worker thread of a started job keeps running while it can take a
\* step; the GUI owes the job nothing.
FairSpec == Spec /\ \A j \in Jobs : WF_vars(Worker(j))

\* Two jobs side by side, with one progress report per transfer.
PairInit ==
    /\ JobInit({1, 2}, 1)
    /\ SchedInit(DefaultPoolSize)
    /\ RetryInit
    /\ MainInit(FALSE)

PairSpec == PairInit /\ [][Next]_vars

\* The Tk scheduler, for each setting of the combobox.
SchedSpecInit ==
    /\ JobInit({}, 0)
    /\ \E n \in PoolSizes : SchedInit(n)
    /\ RetryInit
    /\ MainInit(FALSE)

SchedSpec == SchedSpecInit /\ [][SchedNext]_vars

\* Every started thread's target returns, and the Tk loop runs each
\* update_threads call that after() has scheduled.
FairSchedSpec ==
    /\ SchedSpec
    /\ WF_vars(update_threads)
    /\ \A t \in Urls : WF_vars(ThreadExit(t))

\* The retry loop of one YouTubeDownload object.
RetrySpecInit ==
    /\ JobInit({}, 0)
    /\ SchedInit(DefaultPoolSize)
    /\ \E final \in Dirs : RetryInitIn(final)
    /\ MainInit(FALSE)

RetrySpec == RetrySpecInit /\ [][RetryNext]_vars

\* The download loop of the script YouTube_Downloader.py.
MainSpecInit ==
    /\ JobInit({}, 0)
    /\ SchedInit(DefaultPoolSize)
    /\ RetryInit
    /\ \E playlist \in BOOLEAN : MainInit(playlist)

MainSpec == MainSpecInit /\ [][MainNext]_vars

\* ------------------------------------------------ reading the event log
\* the positions of job j's log that hold a signal of the given kind
Of(j, kind) == {i \in DOMAIN events[j] : events[j][i][1] = kind}

Emitted(j, e) == \E i \in Of(j, e[1]) : events[j][i] = e

FinishedCount(j) == Cardinality(Of(j, "finished"))

\* ------------------------------------------------ claims
\* C1: every execution of YT_DLP_Download.start_yt_download emits finished
\* exactly once: never twice, and once by the time it has returned,
\* whichever path it took.
C1_FinishedExactlyOnce ==
    \A j \in Jobs :
      /\ FinishedCount(j) <= 1
      /\ pc[j] = "done" => FinishedCount(j) = 1
      /\ pc[j] # "done" => FinishedCount(j) = 0

\* a transfer that failed with an engine error has returned
C1_Witness ==
    \E j \in Jobs : pc[j] = "done" /\ Emitted(j, Error("Download failed"))

\* C2: the number of download threads that are alive never exceeds the
\* pool capacity.
C2_AliveWithinCapacity ==
    Cardinality(alive) <= maximum_simultaneous_downloads

\* C3: start_download_thread takes the earliest enqueued of the queued
\* URLs: no URL still queued was enqueued before a URL already started
\* (URLs are numbered in the order add_dls_to_queue appended them).
C3_FifoStart ==
    \A i \in DOMAIN started, k \in DOMAIN downloads_queue :
      started[i] < downloads_queue[k]

\* C4: with every thread terminating and the scheduled ticks run, every
\* URL in downloads_queue is eventually started.
C4_QueuedEventuallyStarted ==
    \A u \in Urls :
      (\E k \in DOMAIN downloads_queue : downloads_queue[k] = u)
        ~> (\E i \in DOMAIN started : started[i] = u)

\* C5: the transfer attempts of one YouTubeDownload.start_yt_download are
\* bounded by the ceiling, whatever the attempts' outcomes: the loop passes
\* the ceiling by at most the attempt that exceeds it.
C5_AttemptsBounded == transfer_attempts <= MaxFailedAttempts + 1

\* C6: after an authorized overwrite, a job that ended without a successful
\* transfer has left the original file at the final path.
C6_OriginalKeptOnFailure ==
    \A j \in Jobs :
      (allow[j] = "True" /\ pc[j] = "done" /\ ~Emitted(j, Finished(TRUE)))
        => fs[expected_path[j]] = OldFile

\* C7: a job whose cancel() is called while it waits for the collision
\* decision leaves the wait and ends Cancelled.
C7_CancelEndsWait ==
    \A j \in Jobs :
      (pc[j] = "wait" /\ cancel_at[j] = "wait")
        ~> (pc[j] = "done" /\ Emitted(j, Status("Cancelled")))

\* C8: a job cancelled before it started makes no metadata fetch and no
\* transfer attempt, and ends Cancelled.
C8_CancelQueuedRunsNothing ==
    \A j \in Jobs :
      cancel_at[j] = "queued" =>
        /\ engine[j].meta = 0
        /\ engine[j].transfer = 0
        /\ pc[j] = "done" => Emitted(j, Status("Cancelled"))

\* C9: a job whose progress hook observed the cancellation ends Cancelled:
\* it has emitted the status "Cancelled" and finished(False), one terminal
\* event, and no error_occurred.
C9_ObservedCancelEndsCancelled ==
    \A j \in Jobs :
      (engine[j].cancel_seen /\ pc[j] = "done") =>
        /\ Emitted(j, Status("Cancelled"))
        /\ Emitted(j, Finished(FALSE))
        /\ FinishedCount(j) = 1
        /\ Of(j, "error") = {}

\* the hook has raised on a cancel request made during the transfer
C9_Witness ==
    \E j \in Jobs :
      /\ engine[j].cancel_seen
      /\ pc[j] = "done"
      /\ cancel_at[j] \in {"downloading", "hook"}

\* C10: two jobs with the same expected final path are never both inside
\* the sequence from the existence check of that path to the end of the
\* transfer that writes it.
InPathSequence(j) ==
    pc[j] \in {"prompt", "wait", "remove", "transfer", "downloading", "hook"}

C10_PathSequenceExclusive ==
    \A j1, j2 \in Jobs :
      (j1 # j2 /\ expected_path[j1] = expected_path[j2])
        => ~(InPathSequence(j1) /\ InPathSequence(j2))

\* ------------------------------------------------ claims C11..C20
\* the elements of a sequence, and whether it repeats none
Range(q) == {q[i] : i \in DOMAIN q}
NoRepeat(q) == Cardinality(Range(q)) = Len(q)

\* C11: each URL appended to downloads_queue is bound to exactly one
\* download object and thread: the URLs appended so far are exactly those
\* still queued and those started, none is in both, none was started twice
\* or is queued twice, and every tracked or living thread is the one thread
\* of a started URL.
C11_OneThreadPerUrl ==
    /\ Range(downloads_queue) \cup Range(started) = 1..submitted
    /\ Range(downloads_queue) \cap Range(started) = {}
    /\ NoRepeat(started)
    /\ NoRepeat(downloads_queue)
    /\ NoRepeat(threads)
    /\ Range(threads) \subseteq Range(started)
    /\ alive \subseteq Range(started)

\* a tick has started a queued URL while another URL is still queued
C11_Witness ==
    /\ Len(started) >= 2
    /\ downloads_queue # <<>>
    /\ \E i \in DOMAIN started : started[i] \notin alive

\* C12: a job whose collision decision was Skip (the response read from
\* provide_overwrite_response is False) has ended Skipped: it emitted the
\* status "Skipped (file exists)" and finished(False) once, no error, made
\* no transfer attempt and staged nothing, and the file at its expected path
\* is the one that was there.
C12_SkipLeavesFile ==
    \A j \in Jobs :
        allow[j] = "False" =>
            /\ pc[j] = "done"
            /\ Emitted(j, Status("Skipped (file exists)"))
            /\ Emitted(j, Finished(FALSE))
            /\ FinishedCount(j) = 1
            /\ Of(j, "error") = {}
            /\ engine[j].transfer = 0
            /\ j \notin temp
            /\ fs[expected_path[j]] = OldFile

C12_Witness ==
    /\ allow[1] = "False"
    /\ Emitted(1, Prompt(expected_path[1]))
    /\ pc[1] = "done"

C14_RemoveFailureFailsAtOnce ==
    [][\A j \in Jobs :
         /\ (pc[j] = "remove" /\ pc'[j] # "remove" /\ fs' = fs) =>
               /\ pc'[j] = "done"
               /\ events'[j] = events[j] \o
                     <<Error("Unable to remove existing file"), Finished(FALSE)>>
               /\ FinishedCount(j) = 0
               /\ engine'[j] = engine[j]
               /\ engine[j].transfer = 0
               /\ engine[j].meta = 1
         /\ (pc[j] = "done" => pc'[j] = "done" /\ engine'[j] = engine[j])]_vars

C14_Witness ==
    /\ allow[1] = "True"
    /\ pc[1] = "done"
    /\ Emitted(1, Error("Unable to remove existing file"))
    /\ engine[1].transfer = 0

\* the job has emitted its prompt and waits in ev.wait() for a response
Blocked(j) == pc[j] = "wait" /\ _prompt_event[j] = "unset"

\* the job's thread is inside start_yt_download and not waiting in ev.wait()
Runnable(j) == pc[j] \notin {"unbuilt", "done"} /\ ~Blocked(j)

\* C15: a job blocked on its collision decision blocks only itself: while
\* it waits, every other job that is inside start_yt_download and not itself
\* waiting can take its next step, whatever that step is; and a call of
\* provide_overwrite_response on one job leaves the prompt event, the
\* response, the decision and the position of every other job as they were.
C15_BlockedJobBlocksOnlyItself ==
    /\ [](\A j \in Jobs : \A k \in Jobs \ {j} :
             Blocked(j) /\ Runnable(k) => ENABLED Worker(k))
    /\ [][\A j \in Jobs :
             (\E a \in BOOLEAN : provide_overwrite_response(j, a)) =>
                 \A k \in Jobs \ {j} :
                     /\ _prompt_event'[k] = _prompt_event[k]
                     /\ _prompt_response'[k] = _prompt_response[k]
                     /\ allow'[k] = allow[k]
                     /\ pc'[k] = pc[k]]_vars

\* job 2 met the same file, was prompted, answered with Overwrite and ran
\* to completion while job 1 still waits for its own answer
C15_Witness ==
    /\ Blocked(1)
    /\ Emitted(2, Prompt(expected_path[2]))
    /\ allow[2] = "True"
    /\ pc[2] = "done"
    /\ Emitted(2, Status("Completed"))

\* C16: provide_overwrite_response called while the job has no outstanding
\* prompt (none emitted and not yet read by the worker) changes nothing of
\* the job's prompt state, so it cannot answer a prompt emitted later.
C16_NoPromptNoEffect ==
    [][\A j \in Jobs :
         ( /\ \E a \in BOOLEAN : provide_overwrite_response(j, a)
           /\ pc[j] # "wait" ) =>
             /\ _prompt_event'[j] = _prompt_event[j]
             /\ _prompt_response'[j] = _prompt_response[j]]_vars

\* C17: a job has at most one outstanding collision prompt: it emits
\* prompt_overwrite at most once, never while an event it installed earlier
\* is still in place after a prompt, and the event is in place only from
\* _ask_overwrite_blocking installing it to the worker reading the response.
C17_OnePromptPerJob ==
    \A j \in Jobs :
        /\ Cardinality(Of(j, "prompt")) <= 1
        /\ (pc[j] = "prompt" => Of(j, "prompt") = {})
        /\ (_prompt_event[j] # None => pc[j] \in {"prompt", "wait"})
        /\ (Blocked(j) => Cardinality(Of(j, "prompt")) = 1)

\* a prompted job has been answered and has gone on to finish its transfer
C17_Witness ==
    /\ Cardinality(Of(1, "prompt")) = 1
    /\ allow[1] = "True"
    /\ engine[1].transfer = 1
    /\ pc[1] = "done"

\* C18: whenever the metadata fetch of YouTubeDownload fails, for whatever
\* reason, no transfer attempt is made and start_yt_download returns False.
C18_MetadataFailureEndsFailed ==
    title_returned \in {"ERROR: Video removed", "ERROR: Title fetch failed"} =>
        /\ transfer_attempts = 0
        /\ rpc = "returned"
        /\ result = "False"

\* C19: a download that start_yt_download gave up on after nothing but
\* counted failures has made exactly as many transfer attempts as the
\* ceiling: 10.
C19_ExactlyMaxRetries ==
    ( /\ rpc = "returned"
      /\ result = "False"
      /\ transfer_attempts > 0
      /\ cache_clears = 0 ) =>
        transfer_attempts = MaxFailedAttempts

\* the failed attempts so far: each is either counted or answered by a
\* cache clearing
FailedAttempts == failed_download_attempts + cache_clears

C21_CacheClearedOnlyOn403 ==
    [][transfer_attempts' = transfer_attempts + 1 =>
         /\ (cache_clears' = cache_clears + 1) <=> (attempt_outcome' = "http403")
         /\ attempt_outcome' = "fail" =>
                /\ cache_clears' = cache_clears
                /\ failed_download_attempts' = failed_download_attempts + 1]_vars

\* C22: the format-based retries of YouTube_Downloader.py stop when the
\* fallback list is used up: once "best[ext=mp4]/best", "best" and every
\* format of youtube_dl_mp4_formats have failed, no further command is run.
C22_StopsWhenFormatsExhausted ==
    main_pc = "run" =>
        /\ main_failed_download_attempts < 2 + Len(youtube_dl_mp4_formats)
        /\ dl_format # ""

\* the value of job j's i-th signal
Value(j, i) == events[j][i][2]

\* C23: the progress values a job publishes are non-decreasing within its
\* transfer attempt, whatever the engine reports. (A YT_DLP_Download job
\* makes one transfer attempt.)
C23_ProgressMonotone ==
    \A j \in Jobs : \A i, k \in Of(j, "progress") :
        i < k => Value(j, i) <= Value(j, k)

\* C24: every progress value YT_DLP_Download emits lies between 0 and 100
\* percent, for every pair of downloaded and total bytes the engine reports.
C24_ProgressInRange ==
    \A j \in Jobs : \A i \in Of(j, "progress") : Value(j, i) \in 0..100

\* C25: a run of the progress hook on a "downloading" report with a missing
\* or zero total emits the status text with the downloaded amount and
\* nothing else: no progress_updated.
C25_NoPercentWithoutTotal ==
    [][\A j \in Jobs : \A d \in HookDicts :
         (d.status = "downloading" /\ d.total = 0 /\ HookBody(j, d)) =>
             /\ events'[j] = events[j] \o <<Status("Downloaded")>>
             /\ Cardinality(Of(j, "progress")') = Cardinality(Of(j, "progress"))]_vars

\* the hook has run on a report without a total
C25_Witness ==
    /\ Emitted(1, Status("Downloaded"))
    /\ engine[1].hooks >= 1
    /\ pc[1] = "downloading"

\* C26: the title of a job is set once: every title_updated of the job
\* carries the value of the first.
C26_TitleSetOnce ==
    \A j \in Jobs : \A i, k \in Of(j, "title") : Value(j, i) = Value(j, k)

\* C27: when the move of the finished file fails, start_yt_download of
\* YouTubeDownload returns False and the file is still in the temporary
\* directory.
C27_MoveFailureReturnsFalse ==
    (rpc \in {"raised", "returned"} /\ attempt_outcome = "ok"
                                    /\ files[FINAL_DESTINATION_DIR] # "whole") =>
        /\ rpc = "returned"
        /\ result = "False"
        /\ files[TEMP_DOWNLOAD_LOC] = "whole"

\* C28: no exception is swallowed: a job leaving the collision check while
\* a file exists at its expected path either asks the overwrite question
\* (the check succeeded) or ends with error_occurred and finished(False)
\* (the check raised); it never goes on to the transfer.
C28_NoSwallowedError ==
    [][\A j \in Jobs :
         (pc[j] = "collision" /\ pc'[j] # "collision"
                              /\ fs[expected_path[j]].exists) =>
             \/ pc'[j] = "prompt"
             \/ /\ pc'[j] = "done"
                /\ Cardinality(Of(j, "error")') = Cardinality(Of(j, "error")) + 1
                /\ Emitted(j, Finished(FALSE))']_vars

\* C30: a job that has ended Cancelled has had its temp-staging artifact
\* deleted (the code has no deletion that could have failed).
C30_CancelCleansTemp ==
    \A j \in Jobs : Emitted(j, Status("Cancelled")) => j \notin temp

\* C29: with capacity N, a URL submitted while fewer than N threads are
\* tracked is started within the add_dls_to_queue call; a URL submitted
\* while N are tracked is left in downloads_queue, not started; a queued URL
\* is started only into a free place among the N; and a place is freed (a
\* thread leaves the tracked ones) only in a step before which one of the
\* tracked threads had ended.
C29_StartAtSubmitOrAfterExit ==
    [][/\ submitted' = submitted + 1 =>
            IF Len(threads) < maximum_simultaneous_downloads
            THEN /\ started' = Append(started, submitted')
                 /\ threads' = Append(threads, submitted')
                 /\ submitted' \in alive'
                 /\ downloads_queue' = downloads_queue
            ELSE /\ downloads_queue' = Append(downloads_queue, submitted')
                 /\ started' = started
                 /\ threads' = threads
                 /\ alive' = alive
       /\ \A u \in Range(downloads_queue) :
            u \in Range(started') =>
                /\ u \in Range(threads')
                /\ Len(threads') <= maximum_simultaneous_downloads
       /\ (\E t \in Range(threads) : t \notin Range(threads')) =>
            \E t \in Range(threads) : t \notin alive
      ]_vars

\* a URL that had to wait in the queue was started after a later one
C29_Witness ==
    /\ \E i, k \in DOMAIN started : i < k /\ started[i] > started[k]
    /\ Len(threads) = maximum_simultaneous_downloads
    /\ downloads_queue # <<>>

\* ------------------------------------------------ claims C31..C37
\* the positions of job j's log that hold the signal e
At(j, e) == {i \in DOMAIN events[j] : events[j][i] = e}

\* C31: the collision check and the overwrite prompt of a job come after
\* its one successful metadata fetch and its title event and before its
\* transfer: while the job is between the fetch and the transfer the engine
\* has made no transfer attempt, every prompt lies after the first title
\* event and before the status "Starting download...", and once the
\* transfer has been called no prompt event is in place.
C31_CollisionBetweenFetchAndTransfer ==
    \A j \in Jobs :
        /\ pc[j] \in {"collision", "prompt", "wait", "remove"} =>
               /\ engine[j].meta = 1
               /\ engine[j].transfer = 0
               /\ Of(j, "title") # {}
        /\ \A p \in Of(j, "prompt") :
               /\ \E t \in Of(j, "title") : t < p
               /\ \A b \in At(j, Status("Starting download...")) : p < b
        /\ engine[j].transfer > 0 =>
               /\ _prompt_event[j] = None
               /\ pc[j] \notin {"collision", "prompt", "wait", "remove"}

\* a prompted job has begun its transfer
C31_Witness ==
    /\ Of(1, "prompt") # {}
    /\ Emitted(1, Status("Starting download..."))
    /\ pc[1] = "downloading"

\* the progress events of job j that lie after its "Cancel requested"
ProgressAfterCancel(j) ==
    {i \in Of(j, "progress") :
        \E c \in At(j, Status("Cancel requested")) : c < i}

\* C32 as stated: once cancel() has been called no progress_updated is
\* emitted, and a job whose hook ran after the cancel call never ends with
\* finished(True).
C32_NoProgressAfterCancel ==
    \A j \in Jobs :
        /\ ProgressAfterCancel(j) = {}
        /\ engine[j].cancel_seen => ~Emitted(j, Finished(TRUE))

\* C32, amended: after the cancel call only the hook invocation that was
\* already past its test of _cancelled can still emit its one
\* progress_updated; every invocation begun after the call raises, and the
\* job never ends with finished(True).
C32_OnlyTheHookInFlight ==
    \A j \in Jobs :
        /\ Cardinality(ProgressAfterCancel(j)) <=
               (IF cancel_at[j] = "hook" THEN 1 ELSE 0)
        /\ engine[j].cancel_seen =>
               /\ ~Emitted(j, Finished(TRUE))
               /\ pc[j] = "done"
               /\ Emitted(j, Status("Cancelled"))

\* cancel() came while a hook was past its test: that hook emitted its
\* progress, the next one raised and the job ended Cancelled
C32_Witness ==
    /\ cancel_at[1] = "hook"
    /\ Cardinality(ProgressAfterCancel(1)) = 1
    /\ engine[1].cancel_seen
    /\ Emitted(1, Status("Cancelled"))

\* C33: finished is the last event of its job.
C33_FinishedIsLast ==
    \A j \in Jobs : \A f \in Of(j, "finished") : f = Len(events[j])

\* C34: the first response supplied after the prompt was emitted stays as
\* it is until the worker reads it: a later provide_overwrite_response
\* cannot change the decision.
C34_FirstResponseWins ==
    [][\A j \in Jobs :
         (pc[j] = "wait" /\ _prompt_event[j] = "set" /\ pc'[j] = "wait") =>
             _prompt_response'[j] = _prompt_response[j]]_vars

\* a response has been supplied to the emitted prompt of job j
Answered(j) == pc[j] = "wait" /\ _prompt_response[j] # None

\* C35: no wake-up is lost: a job with a response supplied after its prompt
\* was emitted leaves ev.wait(), whenever the response came; and the step in
\* which it does returns the supplied value and takes the prompt event and
\* the response away.
C35_NoLostWakeup ==
    /\ \A j \in Jobs :
         Answered(j) ~> (pc[j] # "wait" /\ _prompt_event[j] = None)
    /\ [][\A j \in Jobs :
            (pc[j] = "wait" /\ pc'[j] # "wait") =>
                /\ Answered(j)
                /\ allow'[j] = _prompt_response[j]
                /\ _prompt_event'[j] = None
                /\ _prompt_response'[j] = None]_vars

\* the worker has returned from _ask_overwrite_blocking with Overwrite
C35_Witness ==
    /\ pc[1] = "remove"
    /\ allow[1] = "True"
    /\ _prompt_event[1] = None

\* C36: the cleanup after a failed transfer attempt deletes no temp file of
\* another job that is still downloading, whatever the titles are.
C36_CleanupSparesOtherJobs == temp_dir_others = OtherTempFiles

\* C37: each call of update_threads ends without raising and removes from
\* threads the threads that are no longer alive, and only those.
C37_UpdateThreadsRemovesTheDead ==
    [][update_threads =>
         /\ ~tick_raised'
         /\ \A t \in Range(threads) :
              t \in Range(threads') <=> t \in alive]_vars

====
